---- MODULE Spec2Model ----
(***************************************************************************)
(* Model of src/src/wasm_vm.rs: the wasm-bindgen surface of the bytecode   *)
(* interpreter.  compile() builds the native table and a CompileResult,    *)
(* the CompileResult hands out its WasmVm and its diagnostics by take(),   *)
(* WasmVm::interpret / WasmVm::step drive the Interpreter, and JsConvert   *)
(* marshals Values across the host boundary.                               *)
(*                                                                         *)
(* The Interpreter itself (crate bytecode_vm) is not part of the source    *)
(* file; it is modelled from the interface the specification gives it:     *)
(* run -> Result<(), RuntimeError>, step -> Result<bool, RuntimeError>     *)
(* with bool = "more instructions remain".                                 *)
(*                                                                         *)
(* Numbers: an f64 is represented by the integer count of halves, so that  *)
(* -3.5 is -7, 0 is 0, 2 is 4, 3 is 6.                                     *)
(***************************************************************************)
EXTENDS Integers, Sequences, FiniteSets, TLC

VARIABLES
    natives,    \* the Vec<JsNativeFn> passed to the last compile()
    table,      \* rust_natives as handed to Interpreter::new
    cres,       \* the CompileResult the host holds (Option)
    vm,         \* the WasmVm the host took out of the CompileResult (Option)
    ret,        \* what the last host call returned (for compile: the Engine's diagnostics)
    log,        \* history: one entry per interpret()/step() call on the WasmVm
    hostLog,    \* history: one entry per invocation of a host implementation
    handed,     \* history: per slot, the take() calls made and those that returned Some
    crashed,    \* a panic unwound into the host (wasm trap)
    mval,       \* marshalling harness: the Value given to to_js
    mjs,        \* marshalling harness: the JsValue given to from_js
    mret,       \* marshalling harness: what from_js returned
    mstage      \* marshalling harness: which conversions have been applied

vars == <<natives, table, cres, vm, ret, log, hostLog, handed, crashed,
          mval, mjs, mret, mstage>>

mainVars == <<natives, table, cres, vm, ret, log, hostLog, handed, crashed>>
marshalVars == <<mval, mjs, mret, mstage>>

-----------------------------------------------------------------------------
(* Bounds of the model *)

MaxNatives == 2     \* host natives passed to one compile()
MaxCode == 3        \* instructions of a compiled program
MaxDiags == 2       \* diagnostics of a failed compile
MaxExtra == 1       \* interpret()/step() calls made after the program halted
MaxTakes == 2       \* take_*() calls made on one CompileResult

-----------------------------------------------------------------------------
(* Option<T> and the outcome of code that may panic *)

None == [some |-> FALSE]
Some(x) == [some |-> TRUE, v |-> x]

Returned(x) == [panic |-> FALSE, v |-> x]
Panicked(m) == [panic |-> TRUE, msg |-> m]

-----------------------------------------------------------------------------
(* bytecode_vm::Value, as far as JsConvert matches on it *)

F64 == {-7, 0, 4, 6, 10}
Strs == {"", "x"}

Number(n) == [tag |-> "Number", n |-> n]
Bool(b) == [tag |-> "Bool", b |-> b]
String(s) == [tag |-> "String", s |-> s]
Null == [tag |-> "Null"]
OtherValue == [tag |-> "Function"]

Values ==
    {Number(n) : n \in F64} \cup {Bool(b) : b \in BOOLEAN}
        \cup {String(s) : s \in Strs} \cup {Null, OtherValue}

-----------------------------------------------------------------------------
(* wasm_bindgen::JsValue.  from_js only ever asks a JsValue five questions *)
(* (is_null, is_undefined, as_f64, as_bool, as_string), so a JsValue is    *)
(* the record of the answers.  A JavaScript value answers at most one of   *)
(* them positively (JsReal); the other records are host representations    *)
(* that answer several, which from_js must disambiguate by its order.      *)

JsValues ==
    [nullish : {"no", "null", "undefined"},
     f64 : {None} \cup {Some(n) : n \in {0, 4}},
     bool : {None} \cup {Some(b) : b \in BOOLEAN},
     str : {None} \cup {Some(s) : s \in Strs}]

JsOther == [nullish |-> "no", f64 |-> None, bool |-> None, str |-> None]
JsNULL == [JsOther EXCEPT !.nullish = "null"]
JsUNDEFINED == [JsOther EXCEPT !.nullish = "undefined"]
JsValue_from_f64(n) == [JsOther EXCEPT !.f64 = Some(n)]
JsValue_from_bool(b) == [JsOther EXCEPT !.bool = Some(b)]
JsValue_from_str(s) == [JsOther EXCEPT !.str = Some(s)]

is_null(js) == js.nullish = "null"
is_undefined(js) == js.nullish = "undefined"
as_f64(js) == js.f64
as_bool(js) == js.bool
as_string(js) == js.str

Facets(js) ==
    (IF js.nullish # "no" THEN 1 ELSE 0) + (IF js.f64.some THEN 1 ELSE 0)
        + (IF js.bool.some THEN 1 ELSE 0) + (IF js.str.some THEN 1 ELSE 0)
JsReal(js) == Facets(js) <= 1

-----------------------------------------------------------------------------
(* impl JsConvert for Value *)

to_js_bool_as_number(v) ==
    CASE v.tag = "Number" -> Returned(JsValue_from_f64(v.n))
      [] v.tag = "Bool" -> Returned(JsValue_from_f64(IF v.b THEN 2 ELSE 0))
      [] v.tag = "String" -> Returned(JsValue_from_str(v.s))
      [] v.tag = "Null" -> Returned(JsNULL)
      [] OTHER -> Panicked("Unsupported value.")

to_js(v) ==
    CASE v.tag = "Number" -> Returned(JsValue_from_f64(v.n))
      [] v.tag = "Bool" -> Returned(JsValue_from_bool(v.b))
      [] v.tag = "String" -> Returned(JsValue_from_str(v.s))
      [] v.tag = "Null" -> Returned(JsNULL)
      [] OTHER -> Panicked("Unsupported value.")

from_js_bool_first(js) ==
    IF is_null(js) \/ is_undefined(js) THEN Returned(Null)
    ELSE IF as_bool(js).some THEN Returned(Bool(as_bool(js).v))
    ELSE IF as_f64(js).some THEN Returned(Number(as_f64(js).v))
    ELSE IF as_string(js).some THEN Returned(String(as_string(js).v))
    ELSE Panicked("Unsupported JS value")

from_js(js) ==
    IF is_null(js) \/ is_undefined(js) THEN Returned(Null)
    ELSE IF as_f64(js).some THEN Returned(Number(as_f64(js).v))
    ELSE IF as_bool(js).some THEN Returned(Bool(as_bool(js).v))
    ELSE IF as_string(js).some THEN Returned(String(as_string(js).v))
    ELSE Panicked("Unsupported JS value")

-----------------------------------------------------------------------------
(* The host implementations behind js_sys::Function.  Each is a pure       *)
(* function of the argument array: it returns a JsValue or throws.         *)

HostFns == {"sum", "throws", "object"}

Threw == [threw |-> TRUE]
Gave(js) == [threw |-> FALSE, v |-> js]

HostApply(f, array) ==
    CASE f = "sum" ->
            IF Len(array) >= 2 /\ as_f64(array[1]).some /\ as_f64(array[2]).some
            THEN Gave(JsValue_from_f64(as_f64(array[1]).v + as_f64(array[2]).v))
            ELSE Threw
      [] f = "object" -> Gave(JsOther)
      [] OTHER -> Threw

(* struct JsNativeFn, and the natives a host passes to compile() *)
JsNativeFn(name, arity, function) ==
    [name |-> name, arity |-> arity, function |-> function]

NativeSamples ==
    {JsNativeFn("add", 2, "sum"), JsNativeFn("time", 0, "throws"),
     JsNativeFn("obj", 0, "object")}

RECURSIVE SeqsUpTo(_, _)
SeqsUpTo(S, n) ==
    IF n = 0 THEN {<<>>}
    ELSE LET shorter == SeqsUpTo(S, n - 1)
         IN  shorter \cup {Append(q, x) : q \in {r \in shorter : Len(r) = n - 1}, x \in S}

(* the host registers each of its natives once *)
NativeLists ==
    {ns \in SeqsUpTo(NativeSamples, MaxNatives) :
        \A i, j \in 1..Len(ns) : i # j => ns[i] # ns[j]}

-----------------------------------------------------------------------------
(* impl IntoNative for JsNativeFn: the closure the Engine calls.           *)
(* A call yields out (the Value, or the panic) and seen (what the host     *)
(* implementation observed, if it was invoked).                            *)

Observed(f, array, r) == [function |-> f, args |-> array, result |-> r]

bridge_call_swallow(js_func, vals) ==
    LET js_args == [i \in 1..Len(vals) |-> to_js(vals[i])]
    IN  IF \E i \in 1..Len(vals) : js_args[i].panic
        THEN [out |-> Panicked("Unsupported value."), seen |-> <<>>]
        ELSE LET array == [i \in 1..Len(vals) |-> js_args[i].v]
                 result == HostApply(js_func, array)
             IN  [out |-> IF result.threw THEN Returned(Null)
                          ELSE IF from_js(result.v).panic THEN Returned(Null)
                          ELSE from_js(result.v),
                  seen |-> <<Observed(js_func, array, result)>>]

bridge_call_reversed(js_func, vals) ==
    LET js_args == [i \in 1..Len(vals) |-> to_js(vals[i])]
    IN  IF \E i \in 1..Len(vals) : js_args[i].panic
        THEN [out |-> Panicked("Unsupported value."), seen |-> <<>>]
        ELSE LET array == [i \in 1..Len(vals) |-> js_args[Len(vals) + 1 - i].v]
                 result == HostApply(js_func, array)
             IN  [out |-> IF result.threw THEN Panicked("JS function threw")
                          ELSE from_js(result.v),
                  seen |-> <<Observed(js_func, array, result)>>]

bridge_call(js_func, vals) ==
    LET js_args == [i \in 1..Len(vals) |-> to_js(vals[i])]
    IN  IF \E i \in 1..Len(vals) : js_args[i].panic
        THEN [out |-> Panicked("Unsupported value."), seen |-> <<>>]
        ELSE LET array == [i \in 1..Len(vals) |-> js_args[i].v]
                 result == HostApply(js_func, array)
             IN  [out |-> IF result.threw THEN Panicked("JS function threw")
                          ELSE from_js(result.v),
                  seen |-> <<Observed(js_func, array, result)>>]

into_native(native) ==
    [name |-> native.name, arity |-> native.arity,
     function |-> [kind |-> "js", js_func |-> native.function]]

(* the injected native: Date::now() is in milliseconds, the Value in seconds *)
DateNow == {0, 1500}

time_fn(millis) == Number((2 * millis) \div 1000)

time_native == [name |-> "time", arity |-> 0, function |-> [kind |-> "time"]]

(* NativeFunction.function applied to an argument slice *)
call_native(entry, vals, millis) ==
    IF entry.function.kind = "js" THEN bridge_call(entry.function.js_func, vals)
    ELSE [out |-> Returned(time_fn(millis)), seen |-> <<>>]

-----------------------------------------------------------------------------
(* The Engine: bytecode_vm::interpreter::Interpreter.  A source text is    *)
(* represented by what the compiler makes of it: the diagnostics it        *)
(* raises (none for a valid text) and the instructions it emits.           *)

Unit == "()"
Ok(x) == [kind |-> "Ok", v |-> x]
Err(e) == [kind |-> "Err", e |-> e]
Unwound(m) == [kind |-> "panic", msg |-> m]

CompilerError(line, start, len, message) ==
    [line |-> line, start |-> start, len |-> len, message |-> message]

DiagSamples ==
    {CompilerError(1, 0, 1, "unexpected token"), CompilerError(2, 4, 3, "expected ';'")}

DiagBatches == SeqsUpTo(DiagSamples, MaxDiags) \ {<<>>}

RuntimeError(message) == [message |-> message]

ArgSamples(arity) ==
    CASE arity = 0 -> {<<>>}
      [] arity = 1 -> {<<String("x")>>}
      [] OTHER -> {<<Number(4), Number(6)>>, <<Number(4), OtherValue>>}

Instrs(rust_natives) ==
    {[op |-> "nop"], [op |-> "raise", msg |-> "runtime error"]}
        \cup UNION {{[op |-> "call", native |-> i, args |-> a] :
                        a \in ArgSamples(rust_natives[i].arity)} :
                     i \in 1..Len(rust_natives)}


Interpreter_new(source, rust_natives) ==
    IF source.errors = <<>>
    THEN Ok([code |-> source.code, natives |-> rust_natives, ip |-> 1,
             halted |-> FALSE, recv |-> <<>>])
    ELSE Err(source.errors)

(* one instruction; millis is what Date::now() reads during it *)
Execute(it, millis) ==
    LET ins == it.code[it.ip]
        last == it.ip = Len(it.code)
        next == [it EXCEPT !.ip = @ + 1, !.halted = last]
    IN  CASE ins.op = "nop" -> [it |-> next, res |-> Ok(~last), seen |-> <<>>]
          [] ins.op = "raise" ->
                [it |-> [it EXCEPT !.halted = TRUE],
                 res |-> Err(RuntimeError(ins.msg)), seen |-> <<>>]
          [] OTHER ->
                LET c == call_native(it.natives[ins.native], ins.args, millis)
                IN  IF c.out.panic
                    THEN [it |-> it, res |-> Unwound(c.out.msg), seen |-> c.seen]
                    ELSE [it |-> [next EXCEPT !.recv = Append(@, c.out.v)],
                          res |-> Ok(~last), seen |-> c.seen]

RECURSIVE RunFrom(_, _, _)
RunFrom(it, clock, seen) ==
    LET r == Execute(it, clock[it.ip])
    IN  IF r.res.kind = "Ok" /\ r.res.v
        THEN RunFrom(r.it, clock, seen \o r.seen)
        ELSE [it |-> r.it,
              res |-> IF r.res.kind = "Ok" THEN Ok(Unit) ELSE r.res,
              seen |-> seen \o r.seen]

(* The programs compiled: every instruction of a program can be reached,   *)
(* that is, only the last one may raise or make a native call that faults. *)
Continues(ins, rust_natives) ==
    LET r == Execute([code |-> <<ins, ins>>, natives |-> rust_natives, ip |-> 1,
                      halted |-> FALSE, recv |-> <<>>], 0)
    IN  r.res.kind = "Ok"

Programs(rust_natives) ==
    {c \in SeqsUpTo(Instrs(rust_natives), MaxCode) \ {<<>>} :
        \A k \in 1..(Len(c) - 1) : Continues(c[k], rust_natives)}

Sources(rust_natives) ==
    {[errors |-> <<>>, code |-> c] : c \in Programs(rust_natives)}
        \cup {[errors |-> e, code |-> <<>>] : e \in DiagBatches}

(* What the Engine does when driven after it has halted is not defined by  *)
(* its interface: every outcome of the result type, or a panic.            *)
HaltedStep(it) ==
    {[it |-> it, res |-> r, seen |-> <<>>] :
        r \in {Ok(TRUE), Ok(FALSE), Err(RuntimeError("halted")), Unwound("halted")}}

HaltedRun(it) ==
    {[it |-> it, res |-> r, seen |-> <<>>] :
        r \in {Ok(Unit), Err(RuntimeError("halted")), Unwound("halted")}}

Interpreter_step(it) ==
    IF it.halted THEN HaltedStep(it)
    ELSE {Execute(it, millis) : millis \in DateNow}

Interpreter_run(it) ==
    IF it.halted THEN HaltedRun(it)
    ELSE {RunFrom(it, clock, <<>>) : clock \in [1..Len(it.code) -> DateNow]}

-----------------------------------------------------------------------------
(* struct Output *)

successful == [finished |-> TRUE, runtime_error |-> None]
runtime_err_unfinished(err) == [finished |-> FALSE, runtime_error |-> Some(err.message)]
runtime_err(err) == [finished |-> TRUE, runtime_error |-> Some(err.message)]
unfinished == [finished |-> FALSE, runtime_error |-> None]

-----------------------------------------------------------------------------
(* struct CompileResult *)

WasmVm(interpreter) == [interpreter |-> interpreter]

new_success_with_errors(interpreter) ==
    [success |-> TRUE, vm |-> Some(WasmVm(interpreter)), compile_errors |-> Some(<<>>)]

new_success(interpreter) ==
    [success |-> TRUE, vm |-> Some(WasmVm(interpreter)), compile_errors |-> None]

CompilerErr(i) ==
    [line |-> i.line, start |-> i.start, len |-> i.len, message |-> i.message]

new_failure_first_only(errors) ==
    [success |-> FALSE, vm |-> None,
     compile_errors |-> Some(<<CompilerErr(errors[1])>>)]

new_failure(errors) ==
    [success |-> FALSE, vm |-> None,
     compile_errors |-> Some([k \in 1..Len(errors) |-> CompilerErr(errors[k])])]

success_is_vm_some(self) == self.vm.some

success(self) == self.success

take_interpreter_clone(self) == [self |-> self, out |-> self.vm]

take_interpreter(self) == [self |-> [self EXCEPT !.vm = None], out |-> self.vm]

take_compile_errors(self) ==
    [self |-> [self EXCEPT !.compile_errors = None], out |-> self.compile_errors]

-----------------------------------------------------------------------------
(* fn compile *)

rust_natives_time_first(ns) ==
    <<time_native>> \o [i \in 1..Len(ns) |-> into_native(ns[i])]

rust_natives_of(ns) ==
    Append([i \in 1..Len(ns) |-> into_native(ns[i])], time_native)

compile(source, ns) ==
    LET made == Interpreter_new(source, rust_natives_of(ns))
    IN  IF made.kind = "Ok" THEN new_success(made.v) ELSE new_failure(made.e)

-----------------------------------------------------------------------------
(* impl WasmVm *)

interpret_rejects_suspended(self, r) ==
    [self |-> WasmVm(r.it),
     out |-> IF self.interpreter.ip > 1
             THEN Returned(runtime_err(RuntimeError("already started")))
             ELSE CASE r.res.kind = "Ok" -> Returned(successful)
                    [] r.res.kind = "Err" -> Returned(runtime_err(r.res.e))
                    [] OTHER -> Panicked(r.res.msg)]

interpret_unfinished(self, r) ==
    [self |-> WasmVm(r.it),
     out |-> CASE r.res.kind = "Ok" -> Returned(unfinished)
               [] r.res.kind = "Err" -> Returned(runtime_err(r.res.e))
               [] OTHER -> Panicked(r.res.msg)]

interpret(self, r) ==
    [self |-> WasmVm(r.it),
     out |-> CASE r.res.kind = "Ok" -> Returned(successful)
               [] r.res.kind = "Err" -> Returned(runtime_err(r.res.e))
               [] OTHER -> Panicked(r.res.msg)]

step_inverted(self, r) ==
    [self |-> WasmVm(r.it),
     out |-> CASE r.res.kind = "Ok" ->
                    Returned(IF r.res.v THEN successful ELSE unfinished)
               [] r.res.kind = "Err" -> Returned(runtime_err(r.res.e))
               [] OTHER -> Panicked(r.res.msg)]

step(self, r) ==
    [self |-> WasmVm(r.it),
     out |-> CASE r.res.kind = "Ok" ->
                    Returned(IF r.res.v THEN unfinished ELSE successful)
               [] r.res.kind = "Err" -> Returned(runtime_err(r.res.e))
               [] OTHER -> Panicked(r.res.msg)]

-----------------------------------------------------------------------------
(* The host: one compile, then takes and getter reads on the               *)
(* CompileResult and interpret()/step() calls on the WasmVm it took.  A    *)
(* panic is a wasm trap: nothing runs after it.                            *)

Quiet ==
    /\ mval = Null
    /\ mjs = JsNULL
    /\ mret = None
    /\ mstage = "off"

Init ==
    /\ natives = <<>>
    /\ table = <<>>
    /\ cres = None
    /\ vm = None
    /\ ret = [op |-> "none"]
    /\ log = <<>>
    /\ hostLog = <<>>
    /\ handed = [vm |-> 0, vm_calls |-> 0, compile_errors |-> 0, compile_errors_calls |-> 0]
    /\ crashed = FALSE
    /\ Quiet

Compile ==
    /\ ~cres.some /\ mstage = "off"
    /\ \E ns \in NativeLists :
         \E source \in Sources(rust_natives_of(ns)) :
            /\ natives' = ns
            /\ table' = rust_natives_of(ns)
            /\ cres' = Some(compile(source, ns))
            /\ ret' = [op |-> "compile", errors |-> source.errors]
    /\ UNCHANGED <<vm, log, hostLog, handed, crashed, marshalVars>>

Success ==
    /\ cres.some /\ ~crashed
    /\ ret' = [op |-> "success", flag |-> success(cres.v)]
    /\ UNCHANGED <<natives, table, cres, vm, log, hostLog, handed, crashed, marshalVars>>

Takes == handed.vm_calls + handed.compile_errors_calls

TakeInterpreter ==
    /\ cres.some /\ ~crashed /\ Takes < MaxTakes
    /\ LET t == take_interpreter(cres.v)
       IN  /\ cres' = Some(t.self)
           /\ ret' = [op |-> "take_interpreter", out |-> t.out]
           /\ vm' = IF t.out.some THEN t.out ELSE vm
           /\ handed' = [handed EXCEPT !.vm_calls = @ + 1,
                                       !.vm = IF t.out.some THEN @ + 1 ELSE @]
    /\ UNCHANGED <<natives, table, log, hostLog, crashed, marshalVars>>

TakeCompileErrors ==
    /\ cres.some /\ ~crashed /\ Takes < MaxTakes
    /\ LET t == take_compile_errors(cres.v)
       IN  /\ cres' = Some(t.self)
           /\ ret' = [op |-> "take_compile_errors", out |-> t.out]
           /\ handed' = [handed EXCEPT !.compile_errors_calls = @ + 1,
                                       !.compile_errors = IF t.out.some THEN @ + 1 ELSE @]
    /\ UNCHANGED <<natives, table, vm, log, hostLog, crashed, marshalVars>>

(* calls made on the WasmVm when its Interpreter had already halted *)
Extra == Cardinality({k \in 1..Len(log) : log[k].halted})

Drive(op, self, r, done) ==
    /\ vm' = Some(done.self)
    /\ ret' = [op |-> op, out |-> done.out]
    /\ log' = Append(log, [op |-> op, halted |-> self.interpreter.halted,
                           engine |-> TRUE, res |-> r.res, out |-> done.out])
    /\ crashed' = done.out.panic

Interpret ==
    /\ vm.some /\ ~crashed /\ Extra < MaxExtra
    /\ \E r \in Interpreter_run(vm.v.interpreter) :
         /\ Drive("interpret", vm.v, r, interpret(vm.v, r))
         /\ hostLog' = hostLog \o r.seen
    /\ UNCHANGED <<natives, table, cres, handed, marshalVars>>

Step ==
    /\ vm.some /\ ~crashed /\ Extra < MaxExtra
    /\ \E r \in Interpreter_step(vm.v.interpreter) :
         /\ Drive("step", vm.v, r, step(vm.v, r))
         /\ hostLog' = hostLog \o r.seen
    /\ UNCHANGED <<natives, table, cres, handed, marshalVars>>

Next ==
    \/ Compile
    \/ Success
    \/ TakeInterpreter
    \/ TakeCompileErrors
    \/ Interpret
    \/ Step

Spec == Init /\ [][Next]_vars

(* the host reading a CompileResult *)
NextResult ==
    \/ Compile
    \/ Success
    \/ TakeInterpreter
    \/ TakeCompileErrors

SpecResult == Init /\ [][NextResult]_vars

(* the host driving the WasmVm it took *)
NextRun ==
    \/ Compile
    \/ (~vm.some /\ TakeInterpreter)
    \/ Interpret
    \/ Step

SpecRun == Init /\ [][NextRun]_vars

-----------------------------------------------------------------------------
(* JsConvert on its own: to_js and from_js applied to drawn inputs.        *)
(* mstage: "init" -> "to_js" -> "round_trip", or "init" -> "from_js".      *)

MarshalInit ==
    /\ natives = <<>>
    /\ table = <<>>
    /\ cres = None
    /\ vm = None
    /\ ret = [op |-> "none"]
    /\ log = <<>>
    /\ hostLog = <<>>
    /\ handed = [vm |-> 0, vm_calls |-> 0, compile_errors |-> 0, compile_errors_calls |-> 0]
    /\ crashed = FALSE
    /\ mval \in Values
    /\ mjs \in JsValues
    /\ mret = None
    /\ mstage = "init"

ToJs ==
    /\ mstage = "init"
    /\ LET r == to_js(mval)
       IN  IF r.panic
           THEN mstage' = "to_js panicked" /\ UNCHANGED mjs
           ELSE mstage' = "to_js" /\ mjs' = r.v
    /\ UNCHANGED <<mval, mret, mainVars>>

FromJs ==
    /\ mstage \in {"init", "to_js"}
    /\ mret' = Some(from_js(mjs))
    /\ mstage' = IF mstage = "init" THEN "from_js" ELSE "round_trip"
    /\ UNCHANGED <<mval, mjs, mainVars>>

NextMarshal ==
    \/ ToJs
    \/ FromJs

SpecMarshal == MarshalInit /\ [][NextMarshal]_vars

-----------------------------------------------------------------------------
(* Properties *)

Finished(e) == ~e.out.panic /\ e.out.v.finished
OnlyStepped == \A k \in 1..Len(log) : log[k].op = "step"

(* C1: once an interpret() or step() call has returned finished=true,      *)
(* every later call on that WasmVm is rejected as a fault: it returns no   *)
(* Output and does not drive the Interpreter.                              *)
C1_LaterCallsRejected ==
    \A i, j \in 1..Len(log) :
        (i < j /\ Finished(log[i])) => (log[j].out.panic /\ ~log[j].engine)

(* C2: stepping a fresh WasmVm until it returns finished=true (or faults)  *)
(* ends with the same outcome as one interpret() on a fresh WasmVm of the  *)
(* same program: the same finished flag and runtime_error, or the same     *)
(* fault.                                                                  *)
Fresh(it) == [it EXCEPT !.ip = 1, !.halted = FALSE, !.recv = <<>>]

RunOutcomes(it) ==
    {interpret(WasmVm(Fresh(it)), r).out : r \in Interpreter_run(Fresh(it))}

SteppedToEnd ==
    /\ vm.some
    /\ log # <<>>
    /\ \A k \in 1..Len(log) : log[k].op = "step" /\ ~log[k].halted
    /\ (log[Len(log)].out.panic \/ log[Len(log)].out.v.finished)

C2_RunEqualsStepping ==
    SteppedToEnd => RunOutcomes(vm.v.interpreter) = {log[Len(log)].out}

C2_Witness ==
    /\ SteppedToEnd
    /\ Len(log) = 3
    /\ hostLog # <<>>
    /\ log[3].out = Returned(runtime_err(RuntimeError("runtime error")))

(* C3: on a WasmVm driven only by step(), the Outputs returned are some    *)
(* with finished=false and then exactly one with finished=true: after an   *)
(* Output with finished=true no step() returns an Output again.            *)
C3_StepOutcomeSequence ==
    OnlyStepped =>
        \A i, j \in 1..Len(log) : (i < j /\ Finished(log[i])) => log[j].out.panic

(* C4: the CompileResult compile() returns is either success with a WasmVm *)
(* and no diagnostics, or failure with no WasmVm and at least one          *)
(* diagnostic.                                                             *)
C4_ExactlyOneShape ==
    ret.op = "compile" =>
        LET c == cres.v
        IN  \/ c.success /\ c.vm.some /\ ~c.compile_errors.some
            \/ /\ ~c.success /\ ~c.vm.some
               /\ c.compile_errors.some
               /\ Len(c.compile_errors.v) >= 1

C4_Witness ==
    /\ ret.op = "compile"
    /\ ~cres.v.success
    /\ cres.v.compile_errors.some
    /\ Len(cres.v.compile_errors.v) = 2

(* C5: over any sequence of takes on one CompileResult each slot is handed *)
(* out at most once: a take returns Some exactly when it is the first take *)
(* of a slot that compile() filled, and None otherwise.                    *)
C5_TakeOnce ==
    /\ handed.vm <= 1
    /\ handed.compile_errors <= 1
    /\ ret.op = "take_interpreter" =>
            (ret.out.some <=> (handed.vm_calls = 1 /\ cres.v.success))
    /\ ret.op = "take_compile_errors" =>
            (ret.out.some <=> (handed.compile_errors_calls = 1 /\ ~cres.v.success))

C5_Witness ==
    /\ ret.op = "take_interpreter"
    /\ handed.vm_calls = 2
    /\ handed.vm = 1
    /\ ~ret.out.some

(* C6: from_js takes the first test that passes, in the order null or      *)
(* undefined, number, boolean, string, and panics when none passes; a      *)
(* JsValue that passes the number and the boolean test becomes a Number.   *)
Passing(js) ==
    {t \in 1..4 : \/ t = 1 /\ (is_null(js) \/ is_undefined(js))
                  \/ t = 2 /\ as_f64(js).some
                  \/ t = 3 /\ as_bool(js).some
                  \/ t = 4 /\ as_string(js).some}

First(S) == CHOOSE t \in S : \A u \in S : t <= u

ValueOfTest(t, js) ==
    CASE t = 1 -> Null
      [] t = 2 -> Number(as_f64(js).v)
      [] t = 3 -> Bool(as_bool(js).v)
      [] OTHER -> String(as_string(js).v)

C6_FirstMatchWins ==
    mstage = "from_js" =>
        /\ Passing(mjs) = {} => mret.v.panic
        /\ Passing(mjs) # {} =>
              mret.v = Returned(ValueOfTest(First(Passing(mjs)), mjs))
        /\ ({2, 3} \subseteq Passing(mjs) /\ 1 \notin Passing(mjs)) =>
              mret.v.v.tag = "Number"

C6_Witness ==
    /\ mstage = "from_js"
    /\ mjs = [nullish |-> "no", f64 |-> Some(0), bool |-> Some(FALSE), str |-> None]
    /\ mret = Some(Returned(Number(0)))

(* C7: from_js(to_js(v)) = v for Number(0), Number(-3.5), Bool(true),      *)
(* Bool(false), String(""), String("x") and Null.                          *)
C7_Values ==
    {Number(0), Number(-7), Bool(TRUE), Bool(FALSE), String(""), String("x"), Null}

C7_RoundTrip ==
    (mstage = "round_trip" /\ mval \in C7_Values) => mret = Some(Returned(mval))

C7_Witness ==
    /\ mstage = "round_trip"
    /\ mval = Number(-7)
    /\ mret = Some(Returned(Number(-7)))

(* C8: when a host implementation throws or returns a JsValue from_js      *)
(* cannot marshal, the interpret() or step() call panics: it returns no    *)
(* Output, nothing runs after it, and the Interpreter received no Value    *)
(* from that native call.                                                  *)
BadResult(h) == h.result.threw \/ from_js(h.result.v).panic

TimeCallsDone(it) ==
    Cardinality({k \in 1..(it.ip - 1) :
        it.code[k].op = "call" /\ it.natives[it.code[k].native].function.kind = "time"})

C8_BridgeFaultIsFatal ==
    /\ \A k \in 1..Len(hostLog) :
          BadResult(hostLog[k]) =>
              /\ k = Len(hostLog)
              /\ crashed
              /\ log[Len(log)].out.panic
    /\ vm.some =>
          Len(vm.v.interpreter.recv) =
              Cardinality({k \in 1..Len(hostLog) : ~BadResult(hostLog[k])})
                  + TimeCallsDone(vm.v.interpreter)

C8_Witness ==
    /\ hostLog # <<>>
    /\ hostLog[Len(hostLog)].result.threw
    /\ Len(log) = 2
    /\ log[2].out.panic
    /\ crashed

(* C9: the table compile() hands to the Engine holds the n host natives in *)
(* registration order, names and arities unchanged, then the one injected  *)
(* entry time of arity 0, whatever n is and whatever the host names are.   *)
C9_NativeTable ==
    cres.some =>
        /\ Len(table) = Len(natives) + 1
        /\ \A i \in 1..Len(natives) :
              /\ table[i].name = natives[i].name
              /\ table[i].arity = natives[i].arity
              /\ table[i].function = [kind |-> "js", js_func |-> natives[i].function]
        /\ table[Len(table)].name = "time"
        /\ table[Len(table)].arity = 0
        /\ table[Len(table)].function.kind = "time"
        /\ cres.v.vm.some => cres.v.vm.v.interpreter.natives = table

C9_Witness ==
    /\ ret.op = "compile"
    /\ Len(natives) = 2
    /\ natives[1].name = "time"
    /\ Len(table) = 3
    /\ table[1].name = "time" /\ table[3].name = "time"

(* C10: a program whose first runtime error is on its k-th instruction,    *)
(* stepped one instruction at a time, returns finished=false without an    *)
(* error on steps 1 to k-1 and finished=true with the error on step k.     *)
Raises(code) == {k \in 1..Len(code) : code[k].op = "raise"}

C10_ErrorOnItsStep ==
    (vm.some /\ OnlyStepped /\ Raises(vm.v.interpreter.code) # {}) =>
        LET code == vm.v.interpreter.code
            k == First(Raises(code))
        IN  \A j \in 1..Len(log) :
                /\ j < k => log[j].out = Returned(unfinished)
                /\ j = k => log[j].out =
                      Returned([finished |-> TRUE, runtime_error |-> Some(code[k].msg)])

C10_Witness ==
    /\ vm.some /\ OnlyStepped
    /\ Len(log) = 3
    /\ First(Raises(vm.v.interpreter.code) \cup {MaxCode + 1}) = 3
    /\ log[1].out = Returned(unfinished)
    /\ log[2].out = Returned(unfinished)
    /\ log[3].out.v.finished /\ log[3].out.v.runtime_error.some

(* C11: every Output returned by interpret() or step() is (finished, no    *)
(* error), (finished, error) or (not finished, no error); interpret()      *)
(* never returns finished=false, and step() returns finished=false exactly *)
(* when Interpreter::step answered Ok(true), more instructions remain.     *)
OutputShapes ==
    {[finished |-> TRUE, runtime_error |-> None],
     [finished |-> FALSE, runtime_error |-> None]}
        \cup {[finished |-> TRUE, runtime_error |-> Some(m)] :
                m \in {"runtime error", "halted"}}

C11_OutputShapes ==
    \A k \in 1..Len(log) :
        ~log[k].out.panic =>
            LET o == log[k].out.v
            IN  /\ o \in OutputShapes
                /\ o.runtime_error.some => o.finished
                /\ log[k].op = "interpret" => o.finished
                /\ log[k].op = "step" =>
                      (~o.finished <=> (log[k].res.kind = "Ok" /\ log[k].res.v))

C11_Witness ==
    /\ Len(log) = 3
    /\ log[1].op = "step" /\ log[1].out = Returned(unfinished) /\ log[1].res = Ok(TRUE)
    /\ log[2].op = "step" /\ log[2].out = Returned(unfinished)
    /\ log[3].op = "interpret" /\ log[3].out = Returned(successful)

(* C12: after step() calls that each returned finished=false, interpret()  *)
(* runs the rest of the program: when it returns, its Output has           *)
(* finished=true and the runtime_error interpret() on a fresh WasmVm of    *)
(* the same program returns; when it faults, so does the fresh one.        *)
RunAfterSteps ==
    /\ vm.some
    /\ Len(log) >= 2
    /\ log[Len(log)].op = "interpret"
    /\ \A k \in 1..(Len(log) - 1) :
          log[k].op = "step" /\ log[k].out = Returned(unfinished)

C12_RunAfterSteps ==
    RunAfterSteps =>
        /\ ~log[Len(log)].out.panic => log[Len(log)].out.v.finished
        /\ RunOutcomes(vm.v.interpreter) = {log[Len(log)].out}

C12_Witness ==
    /\ RunAfterSteps
    /\ Len(log) = 3
    /\ log[3].out = Returned(runtime_err(RuntimeError("runtime error")))

(* C13: every invocation of a bridged native by the Interpreter calls the  *)
(* host implementation once, with the array of to_js of the arguments in   *)
(* order, and gives the Interpreter from_js of what the host returned.     *)
(* The instructions of a program run at most once each, in order, so the   *)
(* n-th entry of hostLog belongs to the n-th bridged call invoked.         *)
IsJsCall(it, k) ==
    /\ it.code[k].op = "call"
    /\ it.natives[it.code[k].native].function.kind = "js"

Supported(v) == v.tag \in {"Number", "Bool", "String", "Null"}

Marshallable(it, k) == \A i \in 1..Len(it.code[k].args) : Supported(it.code[k].args[i])

(* bridged calls invoked so far: those completed, and the one that faulted *)
Invoked(it) ==
    {k \in 1..(it.ip - 1) : IsJsCall(it, k)}
        \cup {k \in {it.ip} :
                crashed /\ ~it.halted /\ k <= Len(it.code) /\ IsJsCall(it, k)}

Nth(S, n) == CHOOSE k \in S : Cardinality({j \in S : j < k}) = n - 1

RecvPos(it, k) == Cardinality({j \in 1..k : it.code[j].op = "call"})

HostSawExactly(it, inv) ==
    /\ Len(hostLog) = Cardinality(inv)
    /\ \A n \in 1..Len(hostLog) :
          LET k == Nth(inv, n)
              ins == it.code[k]
              h == hostLog[n]
          IN  /\ h.function = it.natives[ins.native].function.js_func
              /\ Len(h.args) = Len(ins.args)
              /\ \A i \in 1..Len(ins.args) : h.args[i] = to_js(ins.args[i]).v
              /\ k < it.ip => it.recv[RecvPos(it, k)] = from_js(h.result.v).v

(* as claimed: for every invocation, whatever the arguments *)
C13_EveryInvocationReachesHost ==
    vm.some => HostSawExactly(vm.v.interpreter, Invoked(vm.v.interpreter))

(* as amended: for every invocation whose arguments are all Number, Bool,  *)
(* String or Null; with any other argument to_js panics before the host    *)
(* implementation is called.                                               *)
C13_MarshalledInvocationReachesHost ==
    vm.some =>
        HostSawExactly(vm.v.interpreter,
            {k \in Invoked(vm.v.interpreter) : Marshallable(vm.v.interpreter, k)})

C13_Witness ==
    /\ vm.some
    /\ Len(log) = 1 /\ log[1].op = "interpret" /\ log[1].out = Returned(successful)
    /\ Len(vm.v.interpreter.code) = 2
    /\ hostLog = <<Observed("sum", <<JsValue_from_f64(4), JsValue_from_f64(6)>>,
                             Gave(JsValue_from_f64(10)))>>
    /\ vm.v.interpreter.recv = <<Number(10)>>

(* C14: when the Engine's compiler fails with k diagnostics, the           *)
(* CompileResult has success=false, no WasmVm, and exactly those k         *)
(* diagnostics in the Engine's order, each with its line, start, len and   *)
(* message.                                                                *)
C14_FullDiagnosticBatch ==
    (ret.op = "compile" /\ ret.errors # <<>>) =>
        LET c == cres.v
        IN  /\ ~c.success
            /\ ~c.vm.some
            /\ c.compile_errors.some
            /\ Len(c.compile_errors.v) = Len(ret.errors)
            /\ \A k \in 1..Len(ret.errors) :
                  /\ c.compile_errors.v[k].line = ret.errors[k].line
                  /\ c.compile_errors.v[k].start = ret.errors[k].start
                  /\ c.compile_errors.v[k].len = ret.errors[k].len
                  /\ c.compile_errors.v[k].message = ret.errors[k].message

C14_Witness ==
    /\ ret.op = "compile"
    /\ ret.errors = <<CompilerError(2, 4, 3, "expected ';'"),
                      CompilerError(1, 0, 1, "unexpected token")>>
    /\ Len(cres.v.compile_errors.v) = 2
    /\ cres.v.compile_errors.v[1].line = 2
    /\ cres.v.compile_errors.v[2].message = "unexpected token"

(* C15: on a CompileResult, take_interpreter leaves compile_errors and     *)
(* success as they were, take_compile_errors leaves vm and success as they *)
(* were, and success() changes nothing and returns the success flag, so it *)
(* returns the same value before and after any takes.                      *)
C15_Frame ==
    [][cres.some =>
        /\ cres'.v.success = cres.v.success
        /\ handed'.vm_calls # handed.vm_calls =>
              cres'.v.compile_errors = cres.v.compile_errors
        /\ handed'.compile_errors_calls # handed.compile_errors_calls =>
              cres'.v.vm = cres.v.vm
        /\ ret'.op = "success" =>
              (cres' = cres /\ ret'.flag = cres.v.success)]_vars

C15_Witness ==
    /\ ret.op = "success"
    /\ ret.flag = TRUE
    /\ handed.vm = 1
    /\ ~cres.v.vm.some

====
